---------------------------- MODULE Spec2Model ----------------------------
(***************************************************************************)
(* Model of cartmin's file-manager engine: the request gate installed by   *)
(* launch() (src/lib/constructor.js) and the directory navigation of       *)
(* src/lib/file-manager.js.                                                *)
(*                                                                         *)
(* JavaScript strings are modelled as sequences of one-character strings;  *)
(* the tokens "directory=" and "%2F" are kept as single elements, which    *)
(* preserves equality of payloads because neither occurs inside a path.    *)
(***************************************************************************)
EXTENDS Integers, Sequences, FiniteSets, TLC

VARIABLES
    browser,              \* this.browser is set (launch() has run)
    fileManagerFrame,     \* this.fileManagerFrame: NoFrame or the slot index
    blockRepetitiveXhr,   \* this.blockRepetitiveXhr
    lastXhrPostData,      \* this.lastXhrPostData
    allowedXhrPostData,   \* this.allowedXhrPostData
    curDirFiles,          \* this.curDirFiles: Null or a sequence of names
    curDirPath,           \* this.curDirPath
    pc,                   \* position of the caller's thread of control
    call,                 \* name of the API call made last
    result,               \* how that call ended
    nav,                  \* locals of navInFileManager / destroyNav
    click,                \* the clickDir of the final Promise.all, if running
    listing,              \* the promise made by getDirFilesPromise
    trace,                \* closeDir / confirmed click operations of the call
    inflight,             \* responses on their way to the 'response' listeners
    armLog,               \* ghost: outcomes of requests matching the armed key
    listedDir,            \* ghost: payload whose response filled curDirFiles
    clickDir,             \* the clickDir call running or finished last
    fileOp,               \* the file operation made last: argument, effects
    disposed,             \* ghost: what the request handler called on the
                          \* request it saw last, in order
    leftover              \* the clickDir a failed navInFileManager left
                          \* running, and the clicks it issued since

vars == <<browser, fileManagerFrame, blockRepetitiveXhr, lastXhrPostData,
          allowedXhrPostData, curDirFiles, curDirPath, pc, call, result, nav,
          click, listing, trace, inflight, armLog, listedDir, clickDir,
          fileOp, disposed, leftover>>

gate == <<blockRepetitiveXhr, lastXhrPostData, allowedXhrPostData>>

-----------------------------------------------------------------------------
(* Bounds *)

\* Deepest directory of the remote tree.
MaxDepth == 3

\* Responses that may be in flight at once.
MaxInflight == 1

\* Entries kept in armLog.
MaxLog == 2

\* Slot indexes openFileManager is called with: 0..MaxIndex.
MaxIndex == 1

\* Click issuances of one clickDir call that are counted; further ones are
\* issued but leave the counters as they are.
MaxAttempts == 3

\* Longest operation trace a terminating navigation can produce; a longer
\* one (a tear-down that never ends) is cut off here.
MaxTrace == 2 * MaxDepth + 3

-----------------------------------------------------------------------------
(* Values *)

\* JavaScript null.
Null == <<"null">>

\* What req.postData() gives for a request without a body.
Undefined == <<"undefined">>

\* this.fileManagerFrame = null
NoFrame == -1

-----------------------------------------------------------------------------
(* Strings *)

Min(a, b) == IF a < b THEN a ELSE b

Max(a, b) == IF a > b THEN a ELSE b

\* String.prototype.lastIndexOf for a one-character needle; 0-based, -1 if absent.
LastIndexOf(s, ch) ==
    LET hits == {i \in 1..Len(s) : s[i] = ch}
    IN  IF hits = {} THEN -1
        ELSE (CHOOSE i \in hits : \A j \in hits : j <= i) - 1

\* String.prototype.substring(from, to): arguments below 0 count as 0, those
\* above the length as the length, and they are swapped when from > to.
Substring(s, from, to) ==
    LET f  == Max(0, Min(from, Len(s)))
        t  == Max(0, Min(to, Len(s)))
        lo == Min(f, t)
        hi == Max(f, t)
    IN  SubSeq(s, lo + 1, hi)

\* String.prototype.includes
Includes(s, t) ==
    \E i \in 1..(Len(s) - Len(t) + 1) : SubSeq(s, i, i + Len(t) - 1) = t

\* String.prototype.replace('/', '%2F'): a string pattern replaces the first
\* occurrence only.
ReplaceFirstSlash(s) ==
    LET hits == {i \in 1..Len(s) : s[i] = "/"}
    IN  IF hits = {} THEN s
        ELSE LET i == CHOOSE k \in hits : \A j \in hits : k <= j
             IN  SubSeq(s, 1, i - 1) \o <<"%2F">> \o SubSeq(s, i + 1, Len(s))

\* path.substring(0, path.lastIndexOf('/'))
Parent(path) == Substring(path, 0, LastIndexOf(path, "/"))

-----------------------------------------------------------------------------
(* Directories and payloads *)

RECURSIVE Branch(_)
\* The directory d levels down the long branch of the tree: "a", "a/b",
\* "a/b/a", ...
Branch(d) ==
    LET seg == IF d % 2 = 1 THEN "a" ELSE "b"
    IN  IF d = 1 THEN <<seg>> ELSE Branch(d - 1) \o <<"/", seg>>

\* The directories of the remote tree, as values of the "directory"
\* attribute: the top directory "", the long branch, and the side
\* directories "b" and "a/a".
Dirs ==
    {<<>>, <<"b">>, <<"a", "/", "a">>} \cup {Branch(d) : d \in 1..MaxDepth}

RECURSIVE EncodeURIComponent(_)
\* The form encoding the file-manager page applies to a directory: every "/"
\* becomes "%2F".
EncodeURIComponent(s) ==
    IF s = <<>> THEN <<>>
    ELSE (IF Head(s) = "/" THEN <<"%2F">> ELSE <<Head(s)>>)
         \o EncodeURIComponent(Tail(s))

\* The post data of the listing request the page sends for directory d.
WidgetPostData(d) == <<"directory=">> \o EncodeURIComponent(d)

\* The key getDirFilesPromise arms the gate with.
DirFilesKey(path) == <<"directory=">> \o ReplaceFirstSlash(path)

\* File names the server lists for a directory (the "filename" fields of the
\* JSON body).
RemoteFiles(postData) ==
    IF postData = WidgetPostData(<<>>) THEN <<>>
    ELSE << <<"c", "a", "t", ".", "p", "n", "g">>,
            <<"d", "o", "g", ".", "j", "p", "g">> >>

-----------------------------------------------------------------------------
(* Requests seen by the page.on('request') handler *)

Request(type, files, method, postData) ==
    [resourceType |-> type, files |-> files, method |-> method,
     postData |-> postData]

\* The directories the page may send a listing request for: the top one,
\* which it lists when the file manager opens, and those clicked by the
\* navigation under way or ended last.  The page sends such a request once or
\* several times, and possibly late.
ClickedDirs ==
    {<<>>}
    \cup {trace[i][2] : i \in {j \in 1..Len(trace) : trace[j][1] = "click"}}
    \cup (IF pc = "open" /\ nav.paths # <<>> THEN {Head(nav.paths)} ELSE {})
    \cup (IF click.count # 0 THEN {click.path} ELSE {})

\* Listing requests of the file manager, and a POST to the same URL without
\* a body.
ListingRequests ==
    {Request("xhr", TRUE, "POST", WidgetPostData(d)) : d \in ClickedDirs}
    \cup {Request("xhr", TRUE, "POST", Undefined)}

\* Requests that miss one of the three conditions of the handler, and the
\* resource types it aborts.
OtherRequests ==
    { Request("xhr", FALSE, "POST", WidgetPostData(<<>>)),
      Request("xhr", TRUE, "GET", Undefined),
      Request("image", FALSE, "GET", Undefined),
      Request("stylesheet", FALSE, "GET", Undefined),
      Request("document", FALSE, "GET", Undefined) }

Requests == ListingRequests \cup OtherRequests

\* The condition of the handler's outer if.
IsFileManagerXhr(req) ==
    /\ req.resourceType = "xhr"
    /\ req.files
    /\ req.method = "POST"

\* What the handler does with the request: "respond" is the empty synthetic
\* response, "continue" lets it reach the server, "abort" drops it.
RequestOutcomeNoAllowCheck(req) ==
    IF /\ IsFileManagerXhr(req)
       /\ blockRepetitiveXhr
       /\ req.postData = lastXhrPostData
    THEN "respond"
    ELSE IF req.resourceType \in {"image", "stylesheet"} THEN "abort"
    ELSE "continue"

RequestOutcomeNoRepeatCheck(req) ==
    IF IsFileManagerXhr(req) /\ req.postData # allowedXhrPostData
    THEN "respond"
    ELSE IF req.resourceType \in {"image", "stylesheet"} THEN "abort"
    ELSE "continue"

RequestOutcome(req) ==
    IF IsFileManagerXhr(req) /\ req.postData # allowedXhrPostData
    THEN "respond"
    ELSE IF /\ IsFileManagerXhr(req)
            /\ blockRepetitiveXhr
            /\ req.postData = lastXhrPostData
    THEN "respond"
    ELSE IF req.resourceType \in {"image", "stylesheet"} THEN "abort"
    ELSE "continue"

\* The if at the end of the handler.
PassOn(req) ==
    IF req.resourceType \in {"image", "stylesheet"} THEN "abort" ELSE "continue"

\* A handler that goes on to the if at its end after req.respond({}).
GoesOn(req) == <<PassOn(req)>>

\* The return after req.respond({}): nothing more is called on the request.
AfterRespond(req) == <<>>

\* The calls the handler makes on the request, in order.
Disposals(req) ==
    IF RequestOutcome(req) = "respond"
    THEN <<"respond">> \o AfterRespond(req)
    ELSE <<PassOn(req)>>

\* A response as the 'response' listeners see it: the request's post data and
\* whether the body is empty (synthetic) or the server's JSON listing.
Response(postData, text) == [postData |-> postData, text |-> text]

-----------------------------------------------------------------------------
(* Gate setters *)

\* allowXhr(allowed, block = true)
AllowXhr(allowed, block) ==
    /\ lastXhrPostData' = Null
    /\ allowedXhrPostData' = allowed
    /\ blockRepetitiveXhr' = block
    /\ armLog' = <<>>

\* blockRepXhr(block = true)
BlockRepXhr(block) ==
    /\ lastXhrPostData' = Null
    /\ blockRepetitiveXhr' = block
    /\ armLog' = <<>>
    /\ UNCHANGED allowedXhrPostData

-----------------------------------------------------------------------------
(* Initial state: the fields set by the constructor *)

NoClick == [path |-> <<>>, count |-> 0]

\* No clickDir is running on from a call that has failed.
NoLeftover == [path |-> <<>>, count |-> 0, clicks |-> 0]

NoListing == [state |-> "none", value |-> Null, from |-> Null]

\* target is the argument of navInFileManager; path, paths and lastDirPath
\* are its locals of these names; from and listed keep curDirPath and the
\* origin of curDirFiles as they were when the call was made.
\* While destroyNav runs, odd tells whether its while loop has made an odd
\* number of rounds.
NoNav == [target |-> <<>>, from |-> <<>>, listed |-> Null, path |-> <<>>,
          paths |-> <<>>, lastDirPath |-> <<>>, odd |-> FALSE]

\* issued counts the frame.click calls of the clickDir call, refused those of
\* them the widget did not answer with a 'click' event, acked tells whether
\* it answered the last one, done whether clickDir has returned; landed
\* counts the clicks that activated the directory, whether or not the
\* listener of isClickedPromise was still there to see them.
\* While the call runs, odd tells whether the number of clicks issued is
\* odd, also when issued has reached MaxAttempts and counts no further.
NoClickDir == [issued |-> 0, refused |-> 0, acked |-> FALSE, done |-> FALSE,
               landed |-> 0, odd |-> FALSE]

\* arg is the argument of selectFileInFileManager or uploadFileToPage, paths
\* that of uploadFilesToFileManager; index what getFileIndexInFileManager returned;
\* waits the waitForFunction / evaluate calls made in the frame; fileClicks
\* the clicks on the file (1 for a click with clickCount 2); threw what that
\* click threw; dialog the dialog the page showed after it; shown, per entry
\* of a batch, the dialog awaited for it; clicked the entries the upload
\* button was clicked for; uploaded the array the batch returns.
NoFileOp == [arg |-> Null, paths |-> <<>>, index |-> -1, waits |-> 0,
             fileClicks |-> 0, threw |-> "none", dialog |-> Null,
             shown |-> <<>>, clicked |-> <<>>, uploaded |-> <<>>]

Init ==
    /\ browser = FALSE
    /\ fileManagerFrame = NoFrame
    /\ blockRepetitiveXhr = FALSE
    /\ lastXhrPostData = Null
    /\ allowedXhrPostData = Null
    /\ curDirFiles = Null
    /\ curDirPath = <<>>
    /\ pc = "idle"
    /\ call = "none"
    /\ result = "none"
    /\ nav = NoNav
    /\ click = NoClick
    /\ listing = NoListing
    /\ trace = <<>>
    /\ inflight = {}
    /\ armLog = <<>>
    /\ listedDir = Null
    /\ clickDir = NoClickDir
    /\ fileOp = NoFileOp
    /\ disposed = <<>>
    /\ leftover = NoLeftover

\* Bookkeeping of a session operation: it returns at once, and the record
\* of the last navigation is dropped.
Returns(name, how) ==
    /\ call' = name
    /\ result' = how
    /\ pc' = "idle"
    /\ nav' = NoNav
    /\ trace' = <<>>
    /\ fileOp' = NoFileOp

-----------------------------------------------------------------------------
(* Session operations *)

\* launch(): starts the browser and installs the request handler.
Launch ==
    /\ pc = "idle"
    /\ ~browser
    /\ browser' = TRUE
    /\ Returns("launch", "returned")
    /\ UNCHANGED <<disposed, leftover>>
    /\ UNCHANGED <<fileManagerFrame, gate, curDirFiles, curDirPath, click,
                   listing, inflight, armLog, listedDir, clickDir>>

\* close(): closes the browser and resets the fields it lists; curDirPath is
\* not among them.  A clickDir still running ends: its next click throws.
Close ==
    /\ pc = "idle"
    /\ browser
    /\ browser' = FALSE
    /\ fileManagerFrame' = NoFrame
    /\ blockRepetitiveXhr' = FALSE
    /\ lastXhrPostData' = Null
    /\ allowedXhrPostData' = Null
    /\ curDirFiles' = Null
    /\ listedDir' = Null
    /\ armLog' = <<>>
    /\ inflight' = {}
    /\ leftover' = NoLeftover
    /\ UNCHANGED disposed
    /\ Returns("close", "returned")
    /\ UNCHANGED <<curDirPath, click, listing, clickDir>>

\* openFileManager(tabName, index): returns at once when a frame is open,
\* otherwise clicks the upload button and takes the new frame.
OpenFileManager(index) ==
    /\ pc = "idle"
    /\ browser
    /\ fileManagerFrame' =
           IF fileManagerFrame # NoFrame THEN fileManagerFrame ELSE index
    /\ Returns("openFileManager",
               IF fileManagerFrame # NoFrame THEN "returned" ELSE "opened")
    /\ UNCHANGED <<disposed, leftover>>
    /\ UNCHANGED <<browser, gate, curDirFiles, curDirPath, click, listing,
                   inflight, armLog, listedDir, clickDir>>

\* closeFileManager(): returns at once when no frame is open, otherwise
\* clicks the close button and drops the frame.  A clickDir still running
\* ends with the frame: its next click throws.
CloseFileManager ==
    /\ pc = "idle"
    /\ browser
    /\ fileManagerFrame' = NoFrame
    /\ Returns("closeFileManager",
               IF fileManagerFrame = NoFrame THEN "returned" ELSE "closed")
    /\ leftover' = NoLeftover
    /\ UNCHANGED disposed
    /\ UNCHANGED <<browser, gate, curDirFiles, curDirPath, click, listing,
                   inflight, armLog, listedDir, clickDir>>

-----------------------------------------------------------------------------
(* The page's listeners *)

\* page.on('request', ...) of launch(): a file-manager listing request whose
\* post data is the armed one becomes the last one seen, before the repeat
\* check decides about it.
Handle(req) ==
    /\ browser
    /\ IsFileManagerXhr(req) => fileManagerFrame # NoFrame
    /\ Cardinality(inflight) < MaxInflight
    /\ lastXhrPostData' =
           IF IsFileManagerXhr(req) /\ req.postData = allowedXhrPostData
           THEN allowedXhrPostData
           ELSE lastXhrPostData
    /\ inflight' =
           IF ~IsFileManagerXhr(req) THEN inflight
           ELSE IF RequestOutcome(req) = "continue"
           THEN inflight \cup {Response(req.postData, "json")}
           ELSE inflight \cup {Response(req.postData, "")}
    /\ armLog' =
           IF /\ IsFileManagerXhr(req)
              /\ req.postData = allowedXhrPostData
              /\ Len(armLog) < MaxLog
           THEN Append(armLog, RequestOutcome(req))
           ELSE armLog
    /\ UNCHANGED <<browser, fileManagerFrame, blockRepetitiveXhr,
                   allowedXhrPostData, curDirFiles, curDirPath, pc, call,
                   result, nav, click, listing, trace, listedDir, clickDir,
                   fileOp, leftover>>

\* The handler on a request, its calls on the request left unrecorded: what
\* it does to a listing request shows in the response.
OnRequest(req) == Handle(req) /\ UNCHANGED disposed

\* The handler on a request, with the calls it makes on the request
\* recorded.
Intercept(req) == Handle(req) /\ disposed' = Disposals(req)

\* The continuation of navInFileManager after its final Promise.all: both the
\* listing and the click are there.
NavReturns(files, from) ==
    /\ curDirFiles' = files
    /\ listedDir' = from
    /\ curDirPath' = nav.lastDirPath
    /\ listing' = NoListing
    /\ pc' = "idle"
    /\ result' = "returned"
    /\ clickDir' = NoClickDir

\* handleResponse of getDirFilesPromise accepts the response.
ResponseMatches(res) ==
    /\ listing.state = "pending"
    /\ res.postData = allowedXhrPostData
    /\ res.text # ""

\* A response reaches the page: handleResponse, when registered, resolves the
\* listing promise with the file names and lifts the repeat block.
HandleResponse(res) ==
    /\ UNCHANGED <<disposed, leftover>>
    /\ res \in inflight
    /\ inflight' = inflight \ {res}
    /\ IF ResponseMatches(res)
       THEN /\ BlockRepXhr(FALSE)
            /\ IF click = NoClick
               THEN NavReturns(RemoteFiles(res.postData), res.postData)
               ELSE /\ listing' = [state |-> "resolved",
                                   value |-> RemoteFiles(res.postData),
                                   from |-> res.postData]
                    /\ UNCHANGED <<curDirFiles, listedDir, curDirPath, pc,
                                   result, clickDir>>
       ELSE UNCHANGED <<gate, armLog, listing, curDirFiles, listedDir,
                        curDirPath, pc, result, clickDir>>
    /\ UNCHANGED <<browser, fileManagerFrame, call, nav, click, trace,
                   fileOp>>

\* The timer of getDirFilesPromise fires: the promise rejects, Promise.all
\* rejects with it and navInFileManager throws.
TimerFires ==
    /\ pc = "final"
    /\ listing.state = "pending"
    /\ listing' = NoListing
    /\ click' = NoClick
    /\ pc' = "idle"
    /\ result' = "timeout"
    /\ clickDir' = NoClickDir
    /\ UNCHANGED <<browser, fileManagerFrame, gate, curDirFiles, curDirPath,
                   call, nav, trace, inflight, armLog, listedDir, fileOp,
                   disposed>>

\* The timeout of the call.  Nothing cancels the clickDir of the Promise.all
\* and it changes no field: here it is not followed further.
ListingTimeout == TimerFires /\ UNCHANGED leftover

\* The timeout of the call, with the clickDir of the Promise.all followed:
\* if it has not returned, its loop runs on.
TimeoutLeavingClickDir ==
    /\ TimerFires
    /\ leftover' = IF click = NoClick THEN leftover
                   ELSE [path |-> click.path, count |-> click.count,
                         clicks |-> 0]

-----------------------------------------------------------------------------
(* Argument and session checks *)

\* is.string(value) of is.js.
IsString(value) == value \notin {Null, Undefined}

\* A string passed where an array is expected; its token sets it apart from
\* the arrays of paths.
NoArray == << <<"string">> >>

\* is.array(value) of is.js.
IsArray(value) == value # NoArray

\* is.invalidType(name, type, value) of is.js throws.
InvalidType(type, value) ==
    \/ type = "string" /\ ~IsString(value)
    \/ type = "array" /\ ~IsArray(value)

\* A session check that never fails.
NeverClosed(frame) == FALSE

\* !this.fileManagerFrame
IsClosed(frame) == frame = NoFrame

-----------------------------------------------------------------------------
(* Navigation *)

Log(op) == IF Len(trace) < MaxTrace THEN Append(trace, op) ELSE trace

CloseOp(path) == <<"close", path, 0>>

ClickOp(path, count) == <<"click", path, count>>

\* A tear-down that always goes up to the top directory.
DestroyTargetTop(cur, path) == <<>>

RECURSIVE DestroyTarget(_, _)
\* The do-while of destroyNav: truncate path until curDirPath includes it or
\* it is empty.
DestroyTarget(cur, path) ==
    IF Includes(cur, path) THEN path
    ELSE LET p == Parent(path)
         IN  IF p # <<>> THEN DestroyTarget(cur, p) ELSE p

RECURSIVE BuildPaths(_, _)
\* The while loop of navInFileManager: the truncations of path down to, and
\* without, cur, shortest first.
BuildPaths(path, cur) ==
    IF path = cur \/ path = <<>> THEN <<>>
    ELSE Append(BuildPaths(Parent(path), cur), path)

\* The paths navInFileManager clicks: the cursor destroyNav has left, then
\* the truncations of path below it.
NavPaths(path, cur) == <<cur>> \o BuildPaths(path, cur)

\* The short circuit of navInFileManager.
NeverCurrentDir(path) == FALSE

IsCurrentDir(path) == curDirPath = path

\* clickCount of the final click.
FinalClickCountSwapped(lastDirPath) == IF lastDirPath = <<>> THEN 1 ELSE 2

FinalClickCount(lastDirPath) == IF lastDirPath = <<>> THEN 2 ELSE 1

\* A navigation that leaves the key of the last one armed.
KeyKept == allowedXhrPostData

\* this.allowXhr(null): the key navInFileManager sets before destroyNav.
KeyAtStart == Null

\* A directory path is passed, or a value that is no string.
NavArgs == Dirs \cup {Null}

\* navInFileManager(path) up to its first await: the session check, the short
\* circuit, allowXhr(null) and the do-while of destroyNav.
NavInFileManager(path) ==
    /\ UNCHANGED <<disposed, leftover>>
    /\ pc = "idle"
    /\ call' = "navInFileManager"
    /\ trace' = <<>>
    /\ IF InvalidType("string", path)
       THEN /\ result' = "invalid"
            /\ nav' = [NoNav EXCEPT !.target = path, !.from = curDirPath,
                                    !.listed = listedDir]
            /\ UNCHANGED <<pc, gate, armLog>>
       ELSE IF IsClosed(fileManagerFrame)
       THEN /\ result' = "threw"
            /\ nav' = [NoNav EXCEPT !.target = path, !.from = curDirPath,
                                    !.listed = listedDir]
            /\ UNCHANGED <<pc, gate, armLog>>
       ELSE IF IsCurrentDir(path)
       THEN /\ result' = "returned"
            /\ nav' = [NoNav EXCEPT !.target = path, !.from = curDirPath,
                                    !.listed = listedDir]
            /\ UNCHANGED <<pc, gate, armLog>>
       ELSE /\ result' = "pending"
            /\ AllowXhr(KeyAtStart, TRUE)
            /\ nav' = [NoNav EXCEPT !.target = path, !.from = curDirPath,
                                    !.listed = listedDir,
                                    !.path = DestroyTarget(curDirPath, path)]
            /\ pc' = "destroyNav"
    /\ fileOp' = NoFileOp
    /\ UNCHANGED <<browser, fileManagerFrame, curDirFiles, curDirPath, click,
                   listing, inflight, listedDir, clickDir>>

\* One round of the while loop of destroyNav.
CloseCurDir ==
    /\ UNCHANGED <<disposed, leftover>>
    /\ pc = "destroyNav"
    /\ curDirPath # nav.path
    /\ trace' = Log(CloseOp(curDirPath))
    /\ curDirPath' = Parent(curDirPath)
    /\ nav' = [nav EXCEPT !.odd = ~@]
    /\ UNCHANGED <<browser, fileManagerFrame, gate, curDirFiles, pc, call,
                   result, click, listing, inflight, armLog, listedDir,
                   clickDir, fileOp>>

\* The end of destroyNav, and the path list navInFileManager builds next.
DestroyNavEnd ==
    /\ UNCHANGED <<disposed, leftover>>
    /\ pc = "destroyNav"
    /\ curDirPath = nav.path
    /\ trace' = Log(CloseOp(nav.path))
    /\ curDirPath' = nav.path
    /\ nav' = [nav EXCEPT
                  !.paths = SubSeq(NavPaths(nav.target, curDirPath), 1,
                                   Len(NavPaths(nav.target, curDirPath)) - 1),
                  !.lastDirPath = NavPaths(nav.target, curDirPath)[
                                      Len(NavPaths(nav.target, curDirPath))],
                  !.odd = FALSE]
    /\ pc' = "open"
    /\ UNCHANGED <<browser, fileManagerFrame, gate, curDirFiles, call, result,
                   click, listing, inflight, armLog, listedDir, clickDir,
                   fileOp>>

\* clickDir returns after a click: the one click on the top directory, or a
\* click for which isClickedPromise resolved true.
ClickDirReturns(path, isClicked) == path = <<>> \/ isClicked

\* What becomes of one frame.click: the listener of isClickedPromise sees the
\* 'click' event within its 50 ms (ack) or has been removed by its timer,
\* and the click activates the directory (lands) or is swallowed.  A click
\* the listener sees has reached the directory.
ClickOutcomes ==
    {o \in [ack : BOOLEAN, lands : BOOLEAN] : o.ack => o.lands}

\* The click no listener sees and that does nothing.
Swallowed == [ack |-> FALSE, lands |-> FALSE]

\* The outcomes in which the judgement of isClickedPromise is right.  The
\* count of landed clicks is read by no step, so leaving the third outcome
\* out changes nothing else in a behaviour.
SeenOrSwallowed == {o \in ClickOutcomes : o.lands = o.ack}

\* One frame.click of a clickDir call.
Issue(c, path, o) ==
    LET from == IF c.done THEN NoClickDir ELSE c
        landed == IF o.lands THEN Min(from.landed + 1, MaxAttempts)
                  ELSE from.landed
    IN  IF from.issued = MaxAttempts
        THEN [from EXCEPT !.acked = o.ack,
                          !.refused = IF o.ack THEN @ ELSE MaxAttempts,
                          !.done = ClickDirReturns(path, o.ack),
                          !.landed = landed,
                          !.odd = ~ClickDirReturns(path, o.ack) /\ ~@]
        ELSE [issued |-> from.issued + 1,
              refused |-> IF o.ack THEN from.refused ELSE from.refused + 1,
              acked |-> o.ack,
              done |-> ClickDirReturns(path, o.ack),
              landed |-> landed,
              odd |-> ~ClickDirReturns(path, o.ack) /\ ~from.odd]

\* One attempt of clickDir(path, 2) in the for loop: the top directory is
\* clicked once without confirmation, any other until the click is
\* acknowledged.
OpenDir(o) ==
    /\ UNCHANGED <<disposed, leftover>>
    /\ pc = "open"
    /\ nav.paths # <<>>
    /\ LET path == Head(nav.paths)
       IN  /\ clickDir' = Issue(clickDir, path, o)
           /\ IF ClickDirReturns(path, o.ack)
              THEN /\ trace' = Log(ClickOp(path, 2))
                   /\ curDirPath' = path
                   /\ nav' = [nav EXCEPT !.paths = Tail(nav.paths)]
              ELSE UNCHANGED <<trace, curDirPath, nav>>
    /\ UNCHANGED <<browser, fileManagerFrame, gate, curDirFiles, pc, call,
                   result, click, listing, inflight, armLog, listedDir, fileOp>>

\* The final step up to its await: getDirFilesPromise arms the gate and
\* registers its listener and timer, clickDir starts.
FinalStep ==
    /\ UNCHANGED <<disposed, leftover>>
    /\ pc = "open"
    /\ nav.paths = <<>>
    /\ AllowXhr(DirFilesKey(nav.lastDirPath), TRUE)
    /\ listing' = [state |-> "pending", value |-> Null, from |-> Null]
    /\ click' = [path |-> nav.lastDirPath,
                 count |-> FinalClickCount(nav.lastDirPath)]
    /\ pc' = "final"
    /\ clickDir' = NoClickDir
    /\ UNCHANGED <<browser, fileManagerFrame, curDirFiles, curDirPath, call,
                   result, nav, trace, inflight, listedDir, fileOp>>

\* One attempt of the final clickDir.
FinalClick(o) ==
    /\ UNCHANGED <<disposed, leftover>>
    /\ pc = "final"
    /\ click # NoClick
    /\ IF ClickDirReturns(click.path, o.ack)
       THEN /\ trace' = Log(ClickOp(click.path, click.count))
            /\ click' = NoClick
            /\ IF listing.state = "resolved"
               THEN NavReturns(listing.value, listing.from)
               ELSE /\ clickDir' = Issue(clickDir, click.path, o)
                    /\ UNCHANGED <<curDirFiles, listedDir, curDirPath,
                                   listing, pc, result>>
       ELSE /\ clickDir' = Issue(clickDir, click.path, o)
            /\ UNCHANGED <<trace, click, curDirFiles, listedDir, curDirPath,
                           listing, pc, result>>
    /\ UNCHANGED <<browser, fileManagerFrame, gate, call, nav, inflight,
                   armLog, fileOp>>


\* One more attempt of a clickDir that a failed navInFileManager left
\* running: it ends like any other, when a click is acknowledged.
LeftoverClick(o) ==
    /\ leftover # NoLeftover
    /\ leftover' = IF ClickDirReturns(leftover.path, o.ack) THEN NoLeftover
                   ELSE [leftover EXCEPT
                             !.clicks = Min(@ + 1, MaxAttempts)]
    /\ UNCHANGED <<browser, fileManagerFrame, gate, curDirFiles, curDirPath,
                   pc, call, result, nav, click, listing, trace, inflight,
                   armLog, listedDir, clickDir, fileOp, disposed>>

-----------------------------------------------------------------------------
(* Files *)

\* Names the operations on files are called with.
DogJpg == <<"d", "o", "g", ".", "j", "p", "g">>

Dog == <<"d", "o", "g">>

Do == <<"d", "o">>

FrogPng == <<"f", "r", "o", "g", ".", "p", "n", "g">>

TmpDogJpg == <<"t", "/">> \o DogJpg

\* Local files: fs.existsSync is true for these paths.
APng == <<"/", "a">>

BPng == <<"/", "b">>

Missing == <<"/", "m">>

\* The names looked up: those above, the path of a local file, as
\* fillProductPage passes it on from a batch, and the empty string.
FileNames == {DogJpg, Dog, Do, FrogPng, TmpDogJpg, APng, <<>>}

\* A file name is passed, or a value that is no string.
FileNameArgs == FileNames \cup {Null}

\* String.prototype.startsWith
StartsWith(s, t) == Len(t) <= Len(s) /\ SubSeq(s, 1, Len(t)) = t

RECURSIVE TrimStart(_)
TrimStart(s) ==
    IF s # <<>> /\ Head(s) = " " THEN TrimStart(Tail(s)) ELSE s

RECURSIVE TrimEnd(_)
TrimEnd(s) ==
    IF s # <<>> /\ s[Len(s)] = " "
    THEN TrimEnd(SubSeq(s, 1, Len(s) - 1))
    ELSE s

\* String.prototype.trim
Trim(s) == TrimEnd(TrimStart(s))

\* [^\\/\.]+ matches the whole of t.
IsNamePart(t) == t # <<>> /\ \A i \in 1..Len(t) : t[i] \notin {"\\", "/", "."}

\* (([^\\/\.]+)\.)?([^\\/\.]+) matches the whole of t.
IsNameFormat(t) ==
    \/ IsNamePart(t)
    \/ \E k \in 1..Len(t) :
           /\ t[k] = "."
           /\ IsNamePart(SubSeq(t, 1, k - 1))
           /\ IsNamePart(SubSeq(t, k + 1, Len(t)))

\* fileName.match(/(([^\\/\.]+)\.)?([^\\/\.]+)$/)?.[0]: the match that starts
\* first, or undefined.
ClearedFileName(fileName) ==
    LET starts == {i \in 1..Len(fileName) :
                       IsNameFormat(SubSeq(fileName, i, Len(fileName)))}
    IN  IF starts = {} THEN Undefined
        ELSE SubSeq(fileName,
                    CHOOSE i \in starts : \A j \in starts : i <= j,
                    Len(fileName))

\* The text of a list entry of the file manager for a file.
DomText(name) == <<" ">> \o name \o <<" ">>

DomList(files) == [i \in 1..Len(files) |-> DomText(files[i])]

\* What the list of the file manager may hold while an operation waits for
\* it: nothing, or the entries of the directory with files.
DomLists == {<<>>, DomList(RemoteFiles(WidgetPostData(<<"a">>)))}

\* getFileIndexInFileManagerDOM(listSelector, fileName)
GetFileIndexInFileManagerDOM(list, fileName) ==
    LET hits == {i \in 1..Len(list) : StartsWith(Trim(list[i]), fileName)}
    IN  IF hits = {} THEN 0
        ELSE CHOOSE i \in hits : \A j \in hits : i <= j

\* this.curDirFiles.find(name => name.startsWith(clearedFileName))
FindCached(files, clearedFileName) ==
    \E i \in 1..Len(files) : StartsWith(files[i], clearedFileName)

\* getFileIndexInFileManager(fileName), with list the entries the file
\* manager comes to show: a TypeError when this.curDirFiles is null, -1
\* without a look at the page, a timeout of waitForFunction, or the index.
GetFileIndexInFileManager(fileName, list) ==
    LET clearedFileName == ClearedFileName(fileName)
    IN  IF clearedFileName = Undefined
        THEN [how |-> "index", index |-> -1, waits |-> 0]
        ELSE IF curDirFiles = Null
        THEN [how |-> "typeError", index |-> -1, waits |-> 0]
        ELSE IF ~FindCached(curDirFiles, clearedFileName)
        THEN [how |-> "index", index |-> -1, waits |-> 0]
        ELSE IF GetFileIndexInFileManagerDOM(list, clearedFileName) = 0
        THEN [how |-> "timeout", index |-> -1, waits |-> 1]
        ELSE [how |-> "index",
              index |-> GetFileIndexInFileManagerDOM(list, clearedFileName)
                            - 1,
              waits |-> 2]

\* getFileFromFileManager(fileName): how it ends ("invalid", "threw",
\* "typeError", "timeout", "null" or "file"), the index and the waits in the
\* frame, the evaluate that scrolls to the file among them.
GetFileFromFileManager(fileName, list) ==
    IF InvalidType("string", fileName)
    THEN [how |-> "invalid", index |-> -1, waits |-> 0]
    ELSE IF IsClosed(fileManagerFrame)
    THEN [how |-> "threw", index |-> -1, waits |-> 0]
    ELSE LET got == GetFileIndexInFileManager(fileName, list)
         IN  IF got.how # "index" THEN got
             ELSE IF got.index = -1 THEN [got EXCEPT !.how = "null"]
             ELSE [how |-> "file", index |-> got.index,
                   waits |-> got.waits + 1]

\* Bookkeeping of an operation on files that has ended.
FileOpEnds(name, how, record) ==
    /\ call' = name
    /\ result' = how
    /\ fileOp' = record
    /\ pc' = "idle"
    /\ nav' = NoNav
    /\ trace' = <<>>
    /\ UNCHANGED disposed

\* What file.click() may throw: nothing, puppeteer's error for an execution
\* context destroyed by the click, or another error.
ClickThrows == {"none", "contextDestroyed", "other"}

\* this.fileManagerOptions.successMsg
SuccessMsg == <<"o", "k">>

\* Dialogs the page may show: one with the success message in its text, one
\* without, or none (Null).
Dialogs == {<<"o", "k", "!">>, <<"n", "o">>, Null}

\* selectFileInFileManager(fileName)
SelectFileInFileManager(fileName, list) ==
    /\ pc = "idle"
    /\ LET file == GetFileFromFileManager(fileName, list)
       IN  FileOpEnds("selectFileInFileManager",
                      IF file.how = "file" THEN "true"
                      ELSE IF file.how = "null" THEN "false"
                      ELSE file.how,
                      [NoFileOp EXCEPT
                          !.arg = fileName,
                          !.index = file.index,
                          !.waits = file.waits,
                          !.fileClicks = IF file.how = "file" THEN 1 ELSE 0])
    /\ UNCHANGED <<browser, fileManagerFrame, gate, curDirFiles, curDirPath,
                   click, listing, inflight, armLog, listedDir, clickDir,
                   leftover>>

\* A frame that survives a click that threw.
FrameKeptOnThrow(frame, threw) == IF threw = "none" THEN NoFrame ELSE frame

\* this.fileManagerFrame = null after try { file.click } catch (e) {}
FrameAfterUpload(frame, threw) == NoFrame

\* uploadFileToPage(fileName): threw is what the double click throws, dialog
\* the dialog the page shows after it.
UploadFileToPage(fileName, list) ==
    /\ pc = "idle"
    /\ LET file == GetFileFromFileManager(fileName, list)
       IN  IF file.how = "file"
           THEN \E threw \in ClickThrows, dialog \in Dialogs :
                    /\ FileOpEnds("uploadFileToPage", "true",
                                  [NoFileOp EXCEPT !.arg = fileName,
                                                   !.index = file.index,
                                                   !.waits = file.waits,
                                                   !.fileClicks = 1,
                                                   !.threw = threw,
                                                   !.dialog = dialog])
                    /\ fileManagerFrame' =
                           FrameAfterUpload(fileManagerFrame, threw)
                    /\ leftover' =
                           IF FrameAfterUpload(fileManagerFrame, threw)
                                  = NoFrame
                           THEN NoLeftover ELSE leftover
           ELSE /\ FileOpEnds("uploadFileToPage",
                              IF file.how = "null" THEN "false" ELSE file.how,
                              [NoFileOp EXCEPT !.arg = fileName,
                                               !.index = file.index,
                                               !.waits = file.waits])
                /\ UNCHANGED <<fileManagerFrame, leftover>>
    /\ UNCHANGED <<browser, gate, curDirFiles, curDirPath, click, listing,
                   inflight, armLog, listedDir, clickDir>>

LocalFiles == {APng, BPng}

\* fs.existsSync(path)
ExistsSync(path) == path \in LocalFiles

\* A loop that uploads every entry.
SkipsNothing(path) == FALSE

\* !is.string(path) || !fs.existsSync(path)
Skips(path) == ~IsString(path) \/ ~ExistsSync(path)

\* Arrays uploadFilesToFileManager is called with, and a value that is no
\* array.
BatchArgs ==
    { <<>>, <<APng>>, <<Missing>>, <<APng, Missing, BPng>>, <<BPng, APng>>,
      <<Null, APng>>, NoArray }

\* closeBrowserDialogPromise(): the promise resolves with
\* dialog.message().includes(successMsg); without a dialog the timer rejects.
CloseBrowserDialogPromise(dialog) ==
    IF dialog = Null THEN "timeout"
    ELSE IF Includes(dialog, SuccessMsg) THEN "true"
    ELSE "false"

RECURSIVE UploadLoop(_, _, _, _)
\* The for loop of uploadFilesToFileManager from entry i on; dialogs[i] is
\* the dialog the page shows after the file chooser has accepted entry i.
\* The rejection of closeBrowserDialogPromise ends the loop.
UploadLoop(paths, dialogs, i, done) ==
    IF i > Len(paths) THEN done
    ELSE IF Skips(paths[i])
    THEN UploadLoop(paths, dialogs, i + 1,
                    [done EXCEPT !.shown = Append(@, <<"none">>)])
    ELSE LET isUploaded == CloseBrowserDialogPromise(dialogs[i])
             next == [done EXCEPT
                         !.clicked = Append(@, i),
                         !.shown = Append(@, dialogs[i]),
                         !.uploaded = IF isUploaded = "true"
                                      THEN Append(@, paths[i]) ELSE @]
         IN  IF isUploaded = "timeout"
             THEN [next EXCEPT !.threw = "timeout"]
             ELSE UploadLoop(paths, dialogs, i + 1, next)

\* uploadFilesToFileManager(paths)
UploadFilesToFileManager(paths, dialogs) ==
    /\ pc = "idle"
    /\ IF InvalidType("array", paths)
       THEN FileOpEnds("uploadFilesToFileManager", "invalid",
                       [NoFileOp EXCEPT !.paths = paths])
       ELSE IF IsClosed(fileManagerFrame)
       THEN FileOpEnds("uploadFilesToFileManager", "threw",
                       [NoFileOp EXCEPT !.paths = paths])
       ELSE LET done == UploadLoop(paths, dialogs, 1,
                                   [NoFileOp EXCEPT !.paths = paths,
                                                    !.waits = 1])
            IN  FileOpEnds("uploadFilesToFileManager",
                           IF done.threw = "timeout" THEN "timeout"
                           ELSE "returned",
                           done)
    /\ UNCHANGED <<browser, fileManagerFrame, gate, curDirFiles, curDirPath,
                   click, listing, inflight, armLog, listedDir, clickDir,
                   leftover>>

-----------------------------------------------------------------------------

Next ==
    \/ Launch
    \/ Close
    \/ \E index \in 0..MaxIndex : OpenFileManager(index)
    \/ CloseFileManager
    \/ \E path \in NavArgs : NavInFileManager(path)
    \/ CloseCurDir
    \/ DestroyNavEnd
    \/ \E o \in SeenOrSwallowed : OpenDir(o)
    \/ FinalStep
    \/ \E o \in SeenOrSwallowed : FinalClick(o)
    \/ ListingTimeout
    \/ \E req \in ListingRequests : OnRequest(req)
    \/ \E res \in inflight : HandleResponse(res)

\* The requests are those the handler's outer if applies to; on any other
\* request the handler changes no field (GateSpec below has them all, and
\* records what the handler calls on each).
Spec == Init /\ [][Next]_vars

-----------------------------------------------------------------------------
(* The operations on files, in sessions whose page sends no request *)

\* The session as navInFileManager(path) leaves it when it returns: the
\* cursor, the listing and the gate after handleResponse.
Listed(path) ==
    /\ curDirPath = path
    /\ curDirFiles = RemoteFiles(WidgetPostData(path))
    /\ listedDir = WidgetPostData(path)
    /\ allowedXhrPostData = DirFilesKey(path)
    /\ lastXhrPostData = Null
    /\ blockRepetitiveXhr = FALSE

\* The session as launch() leaves it.
Unlisted ==
    /\ curDirPath = <<>>
    /\ curDirFiles = Null
    /\ listedDir = Null
    /\ allowedXhrPostData = Null
    /\ lastXhrPostData = Null
    /\ blockRepetitiveXhr = FALSE

\* A launched browser with the file manager open or closed, before any
\* navigation or after one to "" or to "a" has returned.
FileInit ==
    /\ browser = TRUE
    /\ fileManagerFrame \in {NoFrame, 0}
    /\ Unlisted \/ Listed(<<>>) \/ Listed(<<"a">>)
    /\ pc = "idle"
    /\ call = "none"
    /\ result = "none"
    /\ nav = NoNav
    /\ click = NoClick
    /\ listing = NoListing
    /\ trace = <<>>
    /\ inflight = {}
    /\ armLog = <<>>
    /\ clickDir = NoClickDir
    /\ fileOp = NoFileOp
    /\ disposed = <<>>
    /\ leftover = NoLeftover

FileNext ==
    \/ Launch
    \/ Close
    \/ \E index \in 0..MaxIndex : OpenFileManager(index)
    \/ CloseFileManager
    \/ \E path \in NavArgs : NavInFileManager(path)
    \/ CloseCurDir
    \/ DestroyNavEnd
    \/ \E o \in SeenOrSwallowed : OpenDir(o)
    \/ FinalStep
    \/ \E o \in SeenOrSwallowed : FinalClick(o)
    \/ ListingTimeout
    \/ \E fileName \in FileNameArgs, list \in DomLists :
           SelectFileInFileManager(fileName, list)
    \/ \E fileName \in FileNameArgs, list \in DomLists :
           UploadFileToPage(fileName, list)
    \/ \E paths \in BatchArgs :
           \E dialogs \in [1..Len(paths) -> Dialogs] :
               UploadFilesToFileManager(paths, dialogs)

FileSpec == FileInit /\ [][FileNext]_vars

-----------------------------------------------------------------------------
(* The request handler on every kind of request *)

\* The session in the final step of navInFileManager(d), called with the
\* cursor at "" before any listing was cached: "" has been closed and
\* clicked, the gate is armed for d and the final click is about to be
\* issued.
InFinalStep(d) ==
    /\ pc = "final"
    /\ call = "navInFileManager"
    /\ result = "pending"
    /\ nav = [NoNav EXCEPT !.target = d, !.lastDirPath = d]
    /\ trace = <<CloseOp(<<>>), ClickOp(<<>>, 2)>>
    /\ click = [path |-> d, count |-> FinalClickCount(d)]
    /\ listing = [state |-> "pending", value |-> Null, from |-> Null]
    /\ allowedXhrPostData = DirFilesKey(d)
    /\ lastXhrPostData = Null
    /\ blockRepetitiveXhr = TRUE

\* The session with the file manager just opened.
JustOpened ==
    /\ pc = "idle"
    /\ call = "openFileManager"
    /\ result = "opened"
    /\ nav = NoNav
    /\ trace = <<>>
    /\ click = NoClick
    /\ listing = NoListing
    /\ allowedXhrPostData = Null
    /\ lastXhrPostData = Null
    /\ blockRepetitiveXhr = FALSE

GateInit ==
    /\ browser = TRUE
    /\ fileManagerFrame = 0
    /\ curDirFiles = Null
    /\ curDirPath = <<>>
    /\ listedDir = Null
    /\ JustOpened \/ InFinalStep(<<"a">>) \/ InFinalStep(<<"b">>)
    /\ inflight = {}
    /\ armLog = <<>>
    /\ clickDir = NoClickDir
    /\ fileOp = NoFileOp
    /\ disposed = <<>>
    /\ leftover = NoLeftover

GateNext ==
    \/ \E req \in Requests : Intercept(req)
    \/ \E res \in inflight : HandleResponse(res)
    \/ \E o \in SeenOrSwallowed : FinalClick(o)
    \/ ListingTimeout

GateSpec == GateInit /\ [][GateNext]_vars

-----------------------------------------------------------------------------
(* The clicks of a navigation, each with all its outcomes *)

ClickNext ==
    \/ Launch
    \/ \E index \in 0..MaxIndex : OpenFileManager(index)
    \/ \E path \in NavArgs : NavInFileManager(path)
    \/ CloseCurDir
    \/ DestroyNavEnd
    \/ \E o \in ClickOutcomes : OpenDir(o)
    \/ FinalStep
    \/ \E o \in ClickOutcomes : FinalClick(o)
    \/ ListingTimeout

ClickSpec == Init /\ [][ClickNext]_vars

-----------------------------------------------------------------------------
(* Navigation with the clickDir a timeout leaves running *)

LeftoverNext ==
    \/ Launch
    \/ Close
    \/ \E index \in 0..MaxIndex : OpenFileManager(index)
    \/ CloseFileManager
    \/ \E path \in NavArgs : NavInFileManager(path)
    \/ CloseCurDir
    \/ DestroyNavEnd
    \/ \E o \in SeenOrSwallowed : OpenDir(o)
    \/ FinalStep
    \/ \E o \in SeenOrSwallowed : FinalClick(o)
    \/ TimeoutLeavingClickDir
    \/ \E o \in SeenOrSwallowed : LeftoverClick(o)
    \/ \E req \in ListingRequests : OnRequest(req)
    \/ \E res \in inflight : HandleResponse(res)

LeftoverSpec == Init /\ [][LeftoverNext]_vars

-----------------------------------------------------------------------------
(* Notions the properties are stated with *)

\* The last API call was navInFileManager and it has returned.
NavReturned ==
    /\ call = "navInFileManager"
    /\ result = "returned"
    /\ pc = "idle"

RECURSIVE AncestorsOrSelf(_)
\* A path and its prefixes on "/" boundaries, the top directory included.
AncestorsOrSelf(p) ==
    IF p = <<>> THEN {<<>>} ELSE {p} \cup AncestorsOrSelf(Parent(p))

\* The deepest directory that is an ancestor-or-self of both paths.
CommonAncestor(p, q) ==
    LET common == AncestorsOrSelf(p) \cap AncestorsOrSelf(q)
    IN  CHOOSE a \in common : \A b \in common : Len(b) <= Len(a)

RECURSIVE StrictlyBelow(_, _)
\* The directories of p strictly below its ancestor a, deepest first.
StrictlyBelow(p, a) ==
    IF p = a \/ p = <<>> THEN <<>> ELSE <<p>> \o StrictlyBelow(Parent(p), a)

Reverse(seq) == [i \in 1..Len(seq) |-> seq[Len(seq) + 1 - i]]

\* The operations of a trace without their click counts.
OpPaths(tr) == [i \in 1..Len(tr) |-> <<tr[i][1], tr[i][2]>>]

Closes(paths) == [i \in 1..Len(paths) |-> <<"close", paths[i]>>]

Clicks(paths) == [i \in 1..Len(paths) |-> <<"click", paths[i]>>]

IsClick(op) == op[1] = "click"

ClicksOf(tr) == SelectSeq(tr, IsClick)

\* The gate let a listing request through to the server in this step.
Forwarded(res) ==
    /\ res \in inflight'
    /\ res \notin inflight
    /\ res.text = "json"

-----------------------------------------------------------------------------
(* Properties *)

\* C1: a listing request is forwarded to the server only if its post data is
\* the armed allowedXhrPostData; while the gate is disarmed (null) none is.
C1_ForwardsOnlyArmed ==
    [][\A res \in inflight' :
          Forwarded(res) =>
              /\ allowedXhrPostData # Null
              /\ res.postData = allowedXhrPostData]_vars

\* C1 witness: a forwarded request with the armed post data is on its way.
C1_Witness ==
    \E res \in inflight :
        /\ res.text = "json"
        /\ res.postData = allowedXhrPostData
        /\ pc = "final"

C3_RepeatedNavIsNoop ==
    [][\A p \in Dirs :
          (fileManagerFrame # NoFrame /\ curDirPath = p /\ NavInFileManager(p))
              => /\ UNCHANGED <<curDirPath, curDirFiles, listedDir, gate>>
                 /\ trace' = <<>>
                 /\ pc' = "idle"
                 /\ result' = "returned"]_vars

\* C3 witness: navInFileManager(P) had fetched the listing of P, and a second
\* navInFileManager(P) has returned without any operation.
C3_Witness ==
    /\ NavReturned
    /\ nav.target # <<>>
    /\ nav.from = nav.target
    /\ curDirPath = nav.target
    /\ listedDir = WidgetPostData(nav.target)
    /\ trace = <<>>

C5_Original ==
    /\ (NavReturned /\ trace # <<>>) =>
           trace[Len(trace)] =
               ClickOp(nav.target, IF nav.target = <<>> THEN 1 ELSE 2)
    /\ (NavReturned /\ nav.from = <<>> /\ nav.target = <<"a", "/", "b">>) =>
           ClicksOf(trace) =
               <<ClickOp(<<"a">>, 2), ClickOp(<<"a", "/", "b">>, 2)>>

\* C5 amended: the final click is double for the top directory and single
\* otherwise, and every click before it is double; from "" to "a/b" the
\* clicks are a double click on "", a double click on "a" and a single click
\* on "a/b".
C5_FinalClickSingleUnlessTop ==
    /\ (NavReturned /\ trace # <<>>) =>
           LET clicks == ClicksOf(trace)
           IN  /\ clicks # <<>>
               /\ trace[Len(trace)] =
                      ClickOp(nav.target, IF nav.target = <<>> THEN 2 ELSE 1)
               /\ \A i \in 1..(Len(clicks) - 1) : clicks[i][3] = 2
    /\ (NavReturned /\ nav.from = <<>> /\ nav.target = <<"a", "/", "b">>) =>
           ClicksOf(trace) =
               <<ClickOp(<<>>, 2), ClickOp(<<"a">>, 2),
                 ClickOp(<<"a", "/", "b">>, 1)>>

\* C5 witness: the navigation from "" to "a/b" has returned.
C5_Witness ==
    /\ NavReturned
    /\ nav.from = <<>>
    /\ nav.target = <<"a", "/", "b">>
    /\ Len(trace) = 4

\* C6 as stated: in the final step the gate is armed with "directory="
\* followed by the target with every "/" encoded as "%2F", which is the post
\* data the page sends for the target.
C6_Original ==
    pc = "final" => allowedXhrPostData = WidgetPostData(nav.lastDirPath)

\* C7 as stated: while the session is open, the cursor is the target P of a
\* navInFileManager(P) call (P not the top directory) only once that call has
\* returned, and the listing is then the one fetched for P.
C7_Original ==
    ( /\ fileManagerFrame # NoFrame
      /\ call = "navInFileManager"
      /\ nav.target # <<>>
      /\ curDirPath = nav.target )
        => /\ result = "returned"
           /\ listedDir = WidgetPostData(nav.target)

\* C8 as stated: when the listing wait times out the listing is the one the
\* call started with and the cursor is not the target.
C8_Original ==
    (call = "navInFileManager" /\ result = "timeout") =>
        /\ listedDir = nav.listed
        /\ curDirPath # nav.target

\* C9 as stated: the cursor is "" whenever a file-manager session has just
\* been opened.
C9_Original ==
    (call = "openFileManager" /\ result = "opened") => curDirPath = <<>>

\* C10 as stated: the gate is disarmed, with no last-seen post data, when a
\* navigation attempt has started and when the file-manager session has been
\* closed.
C10_Original ==
    /\ pc = "destroyNav" =>
           (allowedXhrPostData = Null /\ lastXhrPostData = Null)
    /\ (call = "closeFileManager" /\ result = "closed") =>
           (allowedXhrPostData = Null /\ lastXhrPostData = Null)


-----------------------------------------------------------------------------
(* C11: the confirmed click *)

\* C11 as stated: a clickDir call that has returned was acknowledged on its
\* last click and on none before it, so that the widget's first
\* acknowledgement on the n-th attempt means exactly n click issuances.
C11_Original ==
    (clickDir.done /\ clickDir.refused < MaxAttempts) =>
        /\ clickDir.acked
        /\ clickDir.issued = clickDir.refused + 1

\* The part of C11 the do-while of clickDir does give: for a directory other
\* than the top one, a call still running has had every click refused, and a
\* call that has returned has issued one click more than were refused.
C11_BelowTopExact ==
    /\ ( /\ pc = "open"
         /\ clickDir.done
         /\ curDirPath # <<>>
         /\ clickDir.refused < MaxAttempts )
           => (clickDir.acked /\ clickDir.issued = clickDir.refused + 1)
    /\ (~clickDir.done /\ clickDir.issued > 0)
           => (~clickDir.acked /\ clickDir.issued = clickDir.refused)

\* A click on "a" acknowledged at the third attempt.
C11_Witness ==
    /\ pc = "open"
    /\ curDirPath = <<"a">>
    /\ clickDir.issued = 3
    /\ clickDir.refused = 2
    /\ clickDir.acked
    /\ clickDir.done


-----------------------------------------------------------------------------
(* C12: termination of navInFileManager *)

\* The step DestroyNavEnd, told by the positions it leaves and enters: no
\* other step of Next goes from "destroyNav" to "open".
LeavesDestroyNav ==
    /\ pc = "destroyNav"
    /\ curDirPath = nav.path
    /\ pc' = "open"

\* The steps navInFileManager takes on its own: the loops of destroyNav and
\* of navInFileManager go on, and a click that was not acknowledged is
\* followed by the next one.  At most one of them is enabled at a time.
DriverStep ==
    \/ CloseCurDir
    \/ OpenDir(Swallowed)
    \/ FinalStep
    \/ FinalClick(Swallowed)

\* The driver keeps running, responses are delivered and the timer of
\* getDirFilesPromise fires.  Nothing makes the widget acknowledge a click.
LiveSpec ==
    /\ Spec
    /\ WF_vars(DriverStep)
    /\ WF_pc(LeavesDestroyNav)
    /\ WF_vars(ListingTimeout)
    /\ WF_vars(\E res \in inflight : HandleResponse(res))

\* C12 as stated: every call of navInFileManager that has started
\* eventually returns or fails.
C12_Original == (pc # "idle") ~> (pc = "idle")

\* The same for the clicks alone: a call that has come to its for loop
\* eventually leaves it.
C12_OpenLoopEnds == (pc = "open") ~> (pc # "open")


-----------------------------------------------------------------------------
(* C13 .. C20: the operations on files, checked under FileSpec *)

FileLookups == {"selectFileInFileManager", "uploadFileToPage"}

\* The name of a listing entry without its extension.
BaseName(name) ==
    IF LastIndexOf(name, ".") = -1 THEN name
    ELSE Substring(name, 0, LastIndexOf(name, "."))

\* The cached listing holds an entry the normalized name is a prefix of.
CachedEntryFor(fileName) ==
    /\ curDirFiles # Null
    /\ ClearedFileName(fileName) # Undefined
    /\ \E i \in 1..Len(curDirFiles) :
           StartsWith(curDirFiles[i], ClearedFileName(fileName))

\* C13 as stated: a file is found only when the normalized name is the whole
\* name of a listing entry, or the whole name without its extension; a proper
\* prefix such as "do" is not found.
C13_Original ==
    (call \in FileLookups /\ result = "true") =>
        \E i \in 1..Len(curDirFiles) :
            \/ ClearedFileName(fileOp.arg) = curDirFiles[i]
            \/ ClearedFileName(fileOp.arg) = BaseName(curDirFiles[i])

\* C13, the names of its example that are found: "dog" and "dog.jpg" on the
\* listing <<"cat.png", "dog.jpg">> give the entry at index 1 once the list
\* shows it.
C13_DogIsFound ==
    ( /\ call \in FileLookups
      /\ fileOp.arg \in {Dog, DogJpg}
      /\ curDirFiles = <<<<"c", "a", "t", ".", "p", "n", "g">>, DogJpg>>
      /\ result \in {"true", "false"} )
        => (result = "true" /\ fileOp.index = 1)

\* C14 as stated: with no cached listing entry for the normalized name, a
\* call that passed the argument and session checks returns false, with no
\* wait in the frame and no click.
C14_Original ==
    ( /\ call \in FileLookups
      /\ result \notin {"invalid", "threw"}
      /\ ~CachedEntryFor(fileOp.arg) )
        => /\ result = "false"
           /\ fileOp.index = -1
           /\ fileOp.waits = 0
           /\ fileOp.fileClicks = 0

\* The part of C14 that holds: the same once a listing has been cached.
C14_WithListing == curDirFiles # Null => C14_Original

\* "frog.png" looked up on the listing <<"cat.png", "dog.jpg">>.
C14_Witness ==
    /\ call = "selectFileInFileManager"
    /\ fileOp.arg = FrogPng
    /\ curDirFiles # Null
    /\ curDirFiles # <<>>
    /\ result = "false"

\* C15 as stated: uploadFileToPage returns true only if a file was found and
\* the dialog shown carried the success message.
C15_Original ==
    (call = "uploadFileToPage" /\ result = "true") =>
        /\ fileOp.index >= 0
        /\ fileOp.dialog # Null
        /\ Includes(fileOp.dialog, SuccessMsg)

C17_Original ==
    (call = "uploadFileToPage" /\ fileOp.threw = "other") =>
        result \notin {"true", "false"}

RECURSIVE Pick(_, _, _)
\* The entries of seq at the indexes in keep, from index i on, in order.
Pick(seq, keep, i) ==
    IF i > Len(seq) THEN <<>>
    ELSE (IF i \in keep THEN <<seq[i]>> ELSE <<>>) \o Pick(seq, keep, i + 1)

\* The entries of a batch that are strings naming an existing local file.
ExistingFiles(paths) ==
    {i \in 1..Len(paths) : paths[i] \in LocalFiles}

C19_Original ==
    ( /\ call = "uploadFilesToFileManager"
      /\ result \notin {"invalid", "threw"} )
        => /\ result = "returned"
           /\ Len(fileOp.shown) = Len(fileOp.paths)

\* The part of C19 that holds: a dialog without the success message leaves
\* the entry out, is not retried and does not end the batch.
C19_NoSuccessIsOmitted ==
    ( /\ call = "uploadFilesToFileManager"
      /\ result \notin {"invalid", "threw"}
      /\ \A i \in 1..Len(fileOp.shown) : fileOp.shown[i] # Null )
        => /\ result = "returned"
           /\ Len(fileOp.shown) = Len(fileOp.paths)
           /\ Len(fileOp.clicked) <= Len(fileOp.paths)

CheckedOps ==
    {"navInFileManager", "uploadFilesToFileManager",
     "selectFileInFileManager", "uploadFileToPage"}

\* C20: a call of one of the four operations with an argument of the wrong
\* type ends with the argument failure, also without a session; with a
\* well-typed argument and no session it ends with the session failure; and
\* a call ending with either leaves cursor, listing, gate and frame as they
\* were, with no wait in the frame, no click and no directory operation.
C20_FailsBeforeAnyInteraction ==
    [][ (pc = "idle" /\ call' \in CheckedOps) =>
          LET badArg ==
                  \/ call' = "navInFileManager" /\ ~IsString(nav'.target)
                  \/ call' \in FileLookups /\ ~IsString(fileOp'.arg)
                  \/ /\ call' = "uploadFilesToFileManager"
                     /\ ~IsArray(fileOp'.paths)
          IN  /\ badArg => result' = "invalid"
              /\ (~badArg /\ fileManagerFrame = NoFrame) => result' = "threw"
              /\ result' \in {"invalid", "threw"} =>
                     /\ UNCHANGED <<curDirPath, curDirFiles, gate,
                                    fileManagerFrame, listedDir>>
                     /\ pc' = "idle"
                     /\ trace' = <<>>
                     /\ fileOp'.waits = 0
                     /\ fileOp'.fileClicks = 0
                     /\ fileOp'.clicked = <<>> ]_vars

\* A batch called with a string and no session: the argument failure.
C20_Witness ==
    /\ call = "uploadFilesToFileManager"
    /\ result = "invalid"
    /\ fileManagerFrame = NoFrame
    /\ curDirFiles # Null


-----------------------------------------------------------------------------
(* C21: absence of the file or of the listing *)

\* C21 as stated: a lookup called with a string on an open session reports a
\* file the listing does not hold as false, also when no listing has been
\* cached yet (before the first navigation, after close() and launch()); it
\* never raises for that.
C21_Original ==
    ( /\ call \in FileLookups
      /\ result \notin {"invalid", "threw"}
      /\ curDirFiles = Null )
        => result = "false"


-----------------------------------------------------------------------------
(* C22: the last-seen post data *)

\* C22 as stated: every file-manager listing request the handler sees,
\* forwarded or suppressed, becomes the last one seen, so that a request with
\* another post data between two with the armed one ends the repetition.
C22_Original ==
    [][\A req \in Requests :
          (IsFileManagerXhr(req) /\ OnRequest(req)) =>
              lastXhrPostData' = req.postData]_vars


-----------------------------------------------------------------------------
(* C23, C24: the tear-down of destroyNav *)

\* C23 as stated: the directory the tear-down stops at is the deepest
\* directory that is an ancestor-or-self, on "/" boundaries, of both the
\* cursor the call started from and its target.
C23_Original ==
    pc = "destroyNav" => nav.path = CommonAncestor(nav.from, nav.target)

\* C24 as stated: the tear-down ends after finitely many closes and the
\* build-up starts.
C24_Original == (pc = "destroyNav") ~> (pc = "open")


-----------------------------------------------------------------------------
(* C25: every request is disposed of once *)

\* The handler does not let the request through as it is: its post data is
\* not the armed one, or it repeats the last one seen while the block is on.
Suppressed(req) ==
    /\ IsFileManagerXhr(req)
    /\ \/ req.postData # allowedXhrPostData
       \/ blockRepetitiveXhr /\ req.postData = lastXhrPostData

\* C25: the handler makes exactly one call on every request it sees: that
\* call is respond for a listing request it suppresses, which is neither
\* continued nor aborted as well, and continue or abort for every other.
C25_DisposedOnce ==
    [][\A req \in Requests :
          Intercept(req) =>
              /\ Len(disposed') = 1
              /\ Suppressed(req) => disposed' = <<"respond">>
              /\ ~Suppressed(req) => disposed'[1] \in {"continue", "abort"}]_vars

\* A repeated listing request with the armed post data has just got the
\* synthetic response.
C25_Witness ==
    /\ disposed = <<"respond">>
    /\ blockRepetitiveXhr
    /\ lastXhrPostData = allowedXhrPostData
    /\ Response(allowedXhrPostData, "") \in inflight


-----------------------------------------------------------------------------
(* C26: what the gate forwards during a navigation *)

\* C26: while navInFileManager runs its tear-down and its intermediate
\* opens the gate is disarmed, and in its final step the gate is armed with
\* the key of the target before any click of the final clickDir is issued;
\* a listing request forwarded while the call runs is forwarded in the final
\* step and carries the post data of the target.
C26_OnlyTargetForwarded ==
    [][ /\ pc \in {"destroyNav", "open"} => allowedXhrPostData = Null
        /\ pc = "final" =>
               /\ nav.lastDirPath = nav.target
               /\ allowedXhrPostData = DirFilesKey(nav.target)
        /\ (pc = "open" /\ pc' = "final") =>
               /\ allowedXhrPostData' = DirFilesKey(nav.target)
               /\ clickDir'.issued = 0
        /\ pc # "idle" =>
               \A res \in inflight' :
                   Forwarded(res) =>
                       /\ pc = "final"
                       /\ res.postData = WidgetPostData(nav.target) ]_vars

\* The navigation from "" to "a/b" has closed "", opened "" and "a", and the
\* listing request for "a/b" has been forwarded in its final step.
C26_Witness ==
    /\ pc = "final"
    /\ nav.from = <<>>
    /\ nav.target = <<"a", "/", "b">>
    /\ Len(trace) >= 3
    /\ Response(WidgetPostData(nav.target), "json") \in inflight


-----------------------------------------------------------------------------
(* C27: the open steps and the confirmed click *)

\* C27 as stated: every open step of navInFileManager, the one on the top
\* directory included, ends only with a click the widget has acknowledged.
C27_Original == clickDir.done => clickDir.acked


-----------------------------------------------------------------------------
(* C28: the session openFileManager leaves *)

\* C28 as stated: when openFileManager(tab, index) has returned, the open
\* file manager is the one of upload button index, also when a file manager
\* was left open for another button (by an uploadFileToPage that found no
\* file).
C28_Original ==
    [][\A index \in 0..MaxIndex :
          OpenFileManager(index) => fileManagerFrame' = index]_vars


-----------------------------------------------------------------------------
(* C29: a lookup after a batch *)

\* C29 as stated: on a session with a cached listing, a lookup that follows
\* a batch which returned, of a path the batch reported as uploaded, finds
\* the file.
C29_Original ==
    [][ ( /\ call = "uploadFilesToFileManager"
          /\ result = "returned"
          /\ curDirFiles # Null
          /\ fileManagerFrame # NoFrame
          /\ call' \in FileLookups
          /\ \E i \in 1..Len(fileOp.uploaded) :
                 fileOp.uploaded[i] = fileOp'.arg )
            => result' = "true" ]_vars


-----------------------------------------------------------------------------
(* C30: activations of a confirmed click *)

\* C30 as stated: a clickDir call that returns on an acknowledged click has
\* activated the directory once: no click of an attempt judged
\* unacknowledged has taken effect.
C30_Original ==
    (clickDir.done /\ clickDir.acked /\ clickDir.issued < MaxAttempts) =>
        clickDir.landed = 1


\* C31 as stated: once navInFileManager has returned or failed, also by the
\* timeout of the listing with its final click unacknowledged, the call does
\* nothing more: no clickDir of it issues a further click, and until the
\* next call is made the cursor, the listing and the armed gate stay as the
\* call left them.
C31_Original ==
    [][/\ leftover'.clicks <= leftover.clicks
       /\ (/\ call = "navInFileManager"
           /\ pc = "idle"
           /\ pc' = "idle"
           /\ call' = call
           /\ result' = result)
          => UNCHANGED <<curDirPath, curDirFiles, blockRepetitiveXhr,
                         allowedXhrPostData>>]_vars

=============================================================================
